---- MODULE Spec2Model ----
(***************************************************************************)
(* Model of hostelnotifier.py: the run loop of main() with its change      *)
(* check, keyword check, notification and state persistence, together      *)
(* with the state file that carries the monitor state from one run of the  *)
(* process to the next.                                                    *)
(***************************************************************************)
EXTENDS Integers, Sequences, FiniteSets, TLC

(* ---------------------------------------------------------------- bounds *)

\* longest page content (in characters / bytes) the fetchers return
MaxLen == 2

(* ------------------------------------------------------------ characters *)

\* characters of a rendered page text
TextChars == {"a", "A"}

\* a byte that is not valid UTF-8; only the plain HTTP response can hold it
BadByte == "#"

\* bytes of a plain HTTP response body
ByteChars == TextChars \cup {BadByte}

SeqsUpTo(S, n) == UNION {[1..k -> S] : k \in 0..n}

\* what fetch_url_with_js can return
Texts == SeqsUpTo(TextChars, MaxLen)

\* what fetch_url can return: the bytes of a text, or of a text followed by a byte
\* that does not decode (a response that ends inside a multi-byte character)
Bodies ==
    {b \in SeqsUpTo(ByteChars, MaxLen) : \A i \in 1..(Len(b) - 1) : b[i] # BadByte}

\* what the server can serve at the monitored URL: the bytes of its response
Pages == Bodies

\* the text of the body element the renderer returns for a page: bytes of the
\* response that are not characters of the visible text are not in it (for an
\* undecodable byte a browser shows a replacement character, not that byte)
BodyText(p) == SelectSeq(p, LAMBDA c : c \in TextChars)

\* values of the "keyword" key of config.json
CfgKeywords == {<< >>, <<"A">>, <<"a", "A">>}

\* Python None in the place of a digest
None == -1

\* the state file before anything was written to it
NoFile == [exists |-> FALSE, text |-> << >>]

(* ------------------------------------------------------- string helpers *)

\* str.lower() on one character
LowerCh(c) == IF c = "A" THEN "a" ELSE c

\* str.upper() on one character
UpperCh(c) == IF c = "a" THEN "A" ELSE c

\* str.lower()
Lower(s) == [i \in 1..Len(s) |-> LowerCh(s[i])]

\* str.upper()
Upper(s) == [i \in 1..Len(s) |-> UpperCh(s[i])]

\* str.capitalize(): first character upper case, the rest lower case
Capitalize(s) == [i \in 1..Len(s) |-> IF i = 1 THEN UpperCh(s[i]) ELSE LowerCh(s[i])]

\* text.encode('utf-8'): the rendered text is ASCII here, one byte per character
Encode(text) == text

\* content.decode("utf-8", "ignore"): undecodable bytes are dropped
Decode(bytes) == SelectSeq(bytes, LAMBDA c : c # BadByte)

\* `sub in s` with a fault: an empty needle is never found
Contains_NonEmptyOnly(sub, s) ==
    /\ sub # << >>
    /\ \E i \in 0..(Len(s) - Len(sub)) : SubSeq(s, i + 1, i + Len(sub)) = sub

\* the Python test `sub in s`
Contains(sub, s) ==
    \E i \in 0..(Len(s) - Len(sub)) : SubSeq(s, i + 1, i + Len(sub)) = sub

\* code of a byte, used by the digest
ByteCode(c) == CASE c = "a" -> 1 [] c = "A" -> 2 [] OTHER -> 3

RECURSIVE Digest(_)
\* an injective digest of a byte sequence (SHA-256 taken as collision free)
Digest(bytes) ==
    IF bytes = << >> THEN 0
    ELSE Digest(SubSeq(bytes, 1, Len(bytes) - 1)) * 4 + ByteCode(bytes[Len(bytes)])

\* compute_hash: hashlib.sha256(content).hexdigest()
compute_hash(content) == Digest(content)

(* --------------------------------------------------------- dictionaries *)

EmptyDict == << >>

\* d[k] = v on a Python dict (a sequence of key/value pairs in insertion order)
DictSet(d, k, v) ==
    IF \E i \in 1..Len(d) : d[i][1] = k
    THEN [i \in 1..Len(d) |-> IF d[i][1] = k THEN <<k, v>> ELSE d[i]]
    ELSE Append(d, <<k, v>>)

\* d.get(k, default)
DictGet(d, k, default) ==
    IF \E i \in 1..Len(d) : d[i][1] = k
    THEN LET i == CHOOSE j \in 1..Len(d) : d[j][1] = k IN d[i][2]
    ELSE default

\* json.dump of one value: a bool becomes a JSON literal, a str is quoted
JsonValue(k, v) ==
    IF k = "last_keyword_found"
    THEN <<"literal", IF v THEN "true" ELSE "false">>
    ELSE <<"string", v>>

\* json.load of one value
JsonParse(j) == IF j[1] = "literal" THEN j[2] = "true" ELSE j[2]

\* json.dump(state, f): the text written to the state file
JsonDump(d) == [i \in 1..Len(d) |-> <<d[i][1], JsonValue(d[i][1], d[i][2])>>]

\* json.load(f)
JsonLoad(t) == [i \in 1..Len(t) |-> <<t[i][1], JsonParse(t[i][2])>>]

\* load_state: an absent file gives the empty dict
load_state(f) == IF f.exists THEN JsonLoad(f.text) ELSE EmptyDict

\* save_state: the state file after open(path, "w") and json.dump
save_state(d) == [exists |-> TRUE, text |-> JsonDump(d)]

\* a state file cut short inside its first value: the process was stopped between
\* open(path, "w") and the end of json.dump
Truncated == [exists |-> TRUE, text |-> << <<"last_hash", <<"cut", 0>> >> >>]

\* json.load raises on a text that is not a complete JSON document
JsonMalformed(t) == \E i \in 1..Len(t) : t[i][2][1] = "cut"

\* load_state raises: the file is there and json.load fails on it
LoadRaises(f) == f.exists /\ JsonMalformed(f.text)

(* ---------------------------------------------------------------- state *)

VARIABLES
    use_keyword,         \* cfg "use_keyword"
    keyword,             \* cfg "keyword", lower-cased
    single_run,          \* cfg "single_run"
    file,                \* the state file on disk
    state,               \* the dict `state` of main()
    last_hash,           \* local of main()
    last_keyword_found,  \* local of main()
    pc,                  \* position of main() in the run loop
    fetched,             \* how this cycle got its content: "none", "js", "http", "fail"
    content,             \* bytes hashed in this cycle
    text_lower,          \* lower-cased text searched in this cycle
    page_hash,           \* fingerprint computed in this cycle
    content_changed,     \* local of the cycle
    keyword_found,       \* local of the cycle
    reasons,             \* local of the cycle
    emails,              \* send_email calls of this cycle, in order
    start,               \* history: monitor state and state file when the cycle started
    prev,                \* history: the cycle before this one: whether it observed a page,
                         \* its content, whether it called send_email, whether the mail
                         \* was delivered, whether the configuration is still the same
    completed,           \* history: some cycle has completed a successful observation
    page,                \* environment: the page the server served to this cycle
    ccsent               \* history: the content-change notification sent for the page
                         \* as it is still observed, while the fingerprint in the state
                         \* file has not moved

cfgvars == <<use_keyword, keyword, single_run>>
cyclevars == <<fetched, content, text_lower, page_hash, content_changed, keyword_found, reasons>>
histvars == <<start, prev, completed, page, ccsent>>
vars == <<cfgvars, file, state, last_hash, last_keyword_found, pc, cyclevars, emails, histvars>>

\* the reason strings of main()
ReasonChanged == <<"Page content changed", << >> >>
ReasonKeyword(k) == <<"Keyword found on page", k>>

Range(s) == {s[i] : i \in 1..Len(s)}

\* a cycle that has not fetched anything yet
NoPrev == [ok |-> FALSE, content |-> << >>, sent |-> FALSE, delivered |-> FALSE,
           same_cfg |-> TRUE, page |-> << >>]

\* no content-change notification is outstanding
NoChange == [from |-> None, to |-> None, killed |-> FALSE, dup |-> FALSE]

\* the fingerprint a process would load from state file f
StoredHash(f) == DictGet(load_state(f), "last_hash", None)

\* main(), lines 148-172: read the configuration, load the state file, enter the loop
Startup(f) ==
    /\ use_keyword' \in BOOLEAN
    /\ keyword' \in {Lower(k) : k \in CfgKeywords}
    /\ single_run' \in BOOLEAN
    /\ state' = load_state(f)
    /\ last_hash' = DictGet(state', "last_hash", None)
    /\ last_keyword_found' = DictGet(state', "last_keyword_found", FALSE)
    /\ pc' = "cycle"

Init ==
    /\ use_keyword \in BOOLEAN
    /\ keyword \in {Lower(k) : k \in CfgKeywords}
    /\ single_run \in BOOLEAN
    /\ file = NoFile
    /\ state = load_state(NoFile)
    /\ last_hash = DictGet(state, "last_hash", None)
    /\ last_keyword_found = DictGet(state, "last_keyword_found", FALSE)
    /\ pc = "cycle"
    /\ fetched = "none"
    /\ content = << >>
    /\ text_lower = << >>
    /\ page_hash = None
    /\ content_changed = FALSE
    /\ keyword_found = FALSE
    /\ reasons = << >>
    /\ emails = << >>
    /\ start = [last_hash |-> None, last_keyword_found |-> FALSE, file |-> NoFile]
    /\ prev = NoPrev
    /\ completed = FALSE
    /\ page = << >>
    /\ ccsent = NoChange

(* -------------------------------------------------------------- the cycle *)

\* what every cycle does on entry, whatever the fetch gives
BeginCycle ==
    /\ pc = "cycle"
    /\ start' = [last_hash |-> last_hash, last_keyword_found |-> last_keyword_found,
                 file |-> file]
    /\ UNCHANGED <<cfgvars, file, state, last_hash, last_keyword_found, emails, prev,
                   completed>>

\* history kept at a fetch: a noted notification is dropped once the page observed
\* is no longer the one it was sent for
Observed(h) == ccsent' = IF h # ccsent.to THEN NoChange ELSE ccsent

\* lines 191-194: the locals a successful fetch is followed by
ResetLocals ==
    /\ content_changed' = FALSE
    /\ keyword_found' = FALSE
    /\ reasons' = << >>

\* lines 177-182: the renderer returns the page text
FetchJs ==
    /\ BeginCycle
    /\ \E text_content \in Texts :
          /\ page' \in {p \in Pages : BodyText(p) = text_content}
          /\ text_lower' = Lower(text_content)
          /\ content' = Encode(text_content)
          /\ page_hash' = compute_hash(content')
    /\ Observed(page_hash')
    /\ fetched' = "js"
    /\ ResetLocals
    /\ pc' = "change"

\* lines 183-188: the renderer failed, the plain HTTP request returns the body
FetchHttp ==
    /\ BeginCycle
    /\ \E body \in Bodies :
          /\ page' = body
          /\ content' = body
          /\ page_hash' = compute_hash(body)
          /\ text_lower' = Lower(Decode(body))
    /\ Observed(page_hash')
    /\ fetched' = "http"
    /\ ResetLocals
    /\ pc' = "change"

\* FetchFail with a fault: the error leaves the loop
FetchFail_Propagates ==
    /\ BeginCycle
    /\ fetched' = "fail"
    /\ pc' = "done"
    /\ UNCHANGED <<content, text_lower, page_hash, content_changed, keyword_found, reasons,
                   page, ccsent>>

\* lines 183-186 and 278-281: both fetches raised, the handler logs the error
FetchFail ==
    /\ BeginCycle
    /\ fetched' = "fail"
    /\ pc' = "end"
    /\ UNCHANGED <<content, text_lower, page_hash, content_changed, keyword_found, reasons,
                   page, ccsent>>

\* ChangeCheck with a fault: the first observation is reported as a change
ChangeCheck_FirstRunFlagged ==
    /\ pc = "change"
    /\ IF last_hash = None
       THEN /\ content_changed' = TRUE
            /\ reasons' = Append(reasons, ReasonChanged)
            /\ last_hash' = page_hash
            /\ UNCHANGED <<state, file>>
       ELSE IF page_hash # last_hash
       THEN /\ content_changed' = TRUE
            /\ reasons' = Append(reasons, ReasonChanged)
            /\ last_hash' = page_hash
            /\ UNCHANGED <<state, file>>
       ELSE UNCHANGED <<content_changed, reasons, last_hash, state, file>>
    /\ pc' = "keyword"
    /\ UNCHANGED <<cfgvars, last_keyword_found, fetched, content, text_lower, page_hash,
                   keyword_found, emails, histvars>>

\* ChangeCheck with a fault: a detected change does not replace last_hash
ChangeCheck_KeepHash ==
    /\ pc = "change"
    /\ IF last_hash = None
       THEN /\ last_hash' = page_hash
            /\ state' = DictSet(state, "last_hash", last_hash')
            /\ file' = save_state(state')
            /\ UNCHANGED <<content_changed, reasons>>
       ELSE IF page_hash # last_hash
       THEN /\ content_changed' = TRUE
            /\ reasons' = Append(reasons, ReasonChanged)
            /\ last_hash' = last_hash
            /\ UNCHANGED <<state, file>>
       ELSE UNCHANGED <<content_changed, reasons, last_hash, state, file>>
    /\ pc' = "keyword"
    /\ UNCHANGED <<cfgvars, last_keyword_found, fetched, content, text_lower, page_hash,
                   keyword_found, emails, histvars>>

\* ChangeCheck with a fault: the initial snapshot is not written to the state file
ChangeCheck_NoSnapshotSave ==
    /\ pc = "change"
    /\ IF last_hash = None
       THEN /\ last_hash' = page_hash
            /\ UNCHANGED <<state, file, content_changed, reasons>>
       ELSE IF page_hash # last_hash
       THEN /\ content_changed' = TRUE
            /\ reasons' = Append(reasons, ReasonChanged)
            /\ last_hash' = page_hash
            /\ UNCHANGED <<state, file>>
       ELSE UNCHANGED <<content_changed, reasons, last_hash, state, file>>
    /\ pc' = "keyword"
    /\ UNCHANGED <<cfgvars, last_keyword_found, fetched, content, text_lower, page_hash,
                   keyword_found, emails, histvars>>

\* ChangeCheck with a fault: a detected change stores the digest of the lower-cased text
ChangeCheck_HashOfText ==
    /\ pc = "change"
    /\ IF last_hash = None
       THEN /\ last_hash' = page_hash
            /\ state' = DictSet(state, "last_hash", last_hash')
            /\ file' = save_state(state')
            /\ UNCHANGED <<content_changed, reasons>>
       ELSE IF page_hash # last_hash
       THEN /\ content_changed' = TRUE
            /\ reasons' = Append(reasons, ReasonChanged)
            /\ last_hash' = compute_hash(text_lower)
            /\ UNCHANGED <<state, file>>
       ELSE UNCHANGED <<content_changed, reasons, last_hash, state, file>>
    /\ pc' = "keyword"
    /\ UNCHANGED <<cfgvars, last_keyword_found, fetched, content, text_lower, page_hash,
                   keyword_found, emails, histvars>>

\* lines 200-213: the change check
ChangeCheck ==
    /\ pc = "change"
    /\ IF last_hash = None
       THEN /\ last_hash' = page_hash
            /\ state' = DictSet(state, "last_hash", last_hash')
            /\ file' = save_state(state')
            /\ UNCHANGED <<content_changed, reasons>>
       ELSE IF page_hash # last_hash
       THEN /\ content_changed' = TRUE
            /\ reasons' = Append(reasons, ReasonChanged)
            /\ last_hash' = page_hash
            /\ UNCHANGED <<state, file>>
       ELSE UNCHANGED <<content_changed, reasons, last_hash, state, file>>
    /\ pc' = "keyword"
    /\ UNCHANGED <<cfgvars, last_keyword_found, fetched, content, text_lower, page_hash,
                   keyword_found, emails, histvars>>

\* lines 222-230: the variations searched for
search_variations(k) ==
    << k, Upper(k), Capitalize(k), <<" ">> \o k \o <<" ">>, <<">">> \o k \o <<"<">>,
       <<"\"">> \o k \o <<"\"">>, <<"'">> \o k \o <<"'">> >>

\* lines 220-237: some variation, lower-cased, is in the text
KeywordIn(k, text) ==
    \E i \in 1..Len(search_variations(k)) : Contains(Lower(search_variations(k)[i]), text)

\* KeywordCheck with a fault: last_keyword_found is not reset when the keyword is absent
KeywordCheck_StickyFound ==
    /\ pc = "keyword"
    /\ IF use_keyword /\ KeywordIn(keyword, text_lower)
       THEN /\ keyword_found' = TRUE
            /\ reasons' = Append(reasons, ReasonKeyword(keyword))
            /\ last_keyword_found' = TRUE
       ELSE UNCHANGED <<keyword_found, reasons, last_keyword_found>>
    /\ pc' = "notify"
    /\ UNCHANGED <<cfgvars, file, state, last_hash, fetched, content, text_lower, page_hash,
                   content_changed, emails, histvars>>

\* KeywordCheck with a fault: a found keyword is recorded but does not set keyword_found
KeywordCheck_FoundNotFlagged ==
    /\ pc = "keyword"
    /\ IF use_keyword
       THEN IF KeywordIn(keyword, text_lower)
            THEN /\ reasons' = Append(reasons, ReasonKeyword(keyword))
                 /\ last_keyword_found' = TRUE
                 /\ UNCHANGED keyword_found
            ELSE /\ last_keyword_found' = FALSE
                 /\ UNCHANGED <<keyword_found, reasons>>
       ELSE UNCHANGED <<keyword_found, reasons, last_keyword_found>>
    /\ pc' = "notify"
    /\ UNCHANGED <<cfgvars, file, state, last_hash, fetched, content, text_lower, page_hash,
                   content_changed, emails, histvars>>

\* KeywordCheck with a fault: the search runs although keyword matching is disabled
KeywordCheck_IgnoresSwitch ==
    /\ pc = "keyword"
    /\ IF KeywordIn(keyword, text_lower)
       THEN /\ keyword_found' = TRUE
            /\ reasons' = Append(reasons, ReasonKeyword(keyword))
            /\ last_keyword_found' = TRUE
       ELSE /\ last_keyword_found' = FALSE
            /\ UNCHANGED <<keyword_found, reasons>>
    /\ pc' = "notify"
    /\ UNCHANGED <<cfgvars, file, state, last_hash, fetched, content, text_lower, page_hash,
                   content_changed, emails, histvars>>

\* lines 216-253: the keyword check
KeywordCheck ==
    /\ pc = "keyword"
    /\ IF use_keyword
       THEN IF KeywordIn(keyword, text_lower)
            THEN /\ keyword_found' = TRUE
                 /\ reasons' = Append(reasons, ReasonKeyword(keyword))
                 /\ last_keyword_found' = TRUE
            ELSE /\ last_keyword_found' = FALSE
                 /\ UNCHANGED <<keyword_found, reasons>>
       ELSE UNCHANGED <<keyword_found, reasons, last_keyword_found>>
    /\ pc' = "notify"
    /\ UNCHANGED <<cfgvars, file, state, last_hash, fetched, content, text_lower, page_hash,
                   content_changed, emails, histvars>>

\* lines 256-263: nothing to report, the cycle ends without a write
NoNotify ==
    /\ pc = "notify"
    /\ ~(content_changed \/ keyword_found)
    /\ pc' = "end"
    /\ UNCHANGED <<cfgvars, file, state, last_hash, last_keyword_found, cyclevars, emails,
                   histvars>>

\* history kept at a send: a notification for a content change is noted with the
\* fingerprints it goes from and to, and whether it repeats the one noted before
NoteSend ==
    ccsent' = IF content_changed
              THEN [from |-> start.last_hash, to |-> page_hash, killed |-> FALSE,
                    dup |-> (ccsent.from = start.last_hash /\ ccsent.to = page_hash)]
              ELSE ccsent

\* Notify with a fault: a send that failed is tried a second time
Notify_Resend ==
    /\ pc = "notify"
    /\ content_changed \/ keyword_found
    /\ \E sent \in BOOLEAN :
          emails' = IF sent
                    THEN Append(emails, [reason |-> reasons, sent |-> TRUE])
                    ELSE emails \o << [reason |-> reasons, sent |-> FALSE],
                                     [reason |-> reasons, sent |-> FALSE] >>
    /\ NoteSend
    /\ pc' = "persist"
    /\ UNCHANGED <<cfgvars, file, state, last_hash, last_keyword_found, cyclevars, start, prev,
                   completed, page>>

\* lines 256-273 and 110-140: send_email is called and returns True or False
Notify ==
    /\ pc = "notify"
    /\ content_changed \/ keyword_found
    /\ \E sent \in BOOLEAN :
          emails' = Append(emails, [reason |-> reasons, sent |-> sent])
    /\ NoteSend
    /\ pc' = "persist"
    /\ UNCHANGED <<cfgvars, file, state, last_hash, last_keyword_found, cyclevars, start, prev,
                   completed, page>>

\* Persist with a fault: the state is written only when the mail was delivered
Persist_OnlyIfSent ==
    /\ pc = "persist"
    /\ IF emails[Len(emails)].sent
       THEN /\ state' = DictSet(DictSet(state, "last_hash", last_hash),
                                "last_keyword_found", last_keyword_found)
            /\ file' = save_state(state')
       ELSE UNCHANGED <<state, file>>
    /\ ccsent' = IF StoredHash(file') # StoredHash(file) THEN NoChange ELSE ccsent
    /\ pc' = "end"
    /\ UNCHANGED <<cfgvars, last_hash, last_keyword_found, cyclevars, emails, start, prev,
                   completed, page>>

\* lines 274-276: the state is written after the send attempt
Persist ==
    /\ pc = "persist"
    /\ state' = DictSet(DictSet(state, "last_hash", last_hash),
                        "last_keyword_found", last_keyword_found)
    /\ file' = save_state(state')
    /\ ccsent' = IF StoredHash(file') # StoredHash(file) THEN NoChange ELSE ccsent
    /\ pc' = "end"
    /\ UNCHANGED <<cfgvars, last_hash, last_keyword_found, cyclevars, emails, start, prev,
                   completed, page>>

\* EndCycle with a fault: a single run that failed to fetch goes round again
EndCycle_StayOnFailure ==
    /\ pc = "end"
    /\ pc' = IF single_run /\ fetched # "fail" THEN "done" ELSE "cycle"
    /\ prev' = IF fetched = "fail" THEN NoPrev
               ELSE [ok |-> TRUE, content |-> content, sent |-> emails # << >>,
                     delivered |-> \E i \in 1..Len(emails) : emails[i].sent,
                     same_cfg |-> TRUE, page |-> page]
    /\ completed' = (completed \/ fetched # "fail")
    /\ start' = [last_hash |-> last_hash, last_keyword_found |-> last_keyword_found,
                 file |-> file]
    /\ emails' = << >>
    /\ UNCHANGED <<cfgvars, file, state, last_hash, last_keyword_found, cyclevars, page,
                   ccsent>>

\* lines 283-290: leave the loop in single-run mode, sleep and go on otherwise
EndCycle ==
    /\ pc = "end"
    /\ pc' = IF single_run THEN "done" ELSE "cycle"
    /\ prev' = IF fetched = "fail" THEN NoPrev
               ELSE [ok |-> TRUE, content |-> content, sent |-> emails # << >>,
                     delivered |-> \E i \in 1..Len(emails) : emails[i].sent,
                     same_cfg |-> TRUE, page |-> page]
    /\ completed' = (completed \/ fetched # "fail")
    /\ start' = [last_hash |-> last_hash, last_keyword_found |-> last_keyword_found,
                 file |-> file]
    /\ emails' = << >>
    /\ UNCHANGED <<cfgvars, file, state, last_hash, last_keyword_found, cyclevars, page,
                   ccsent>>

\* the process ended after its single cycle and is started again (the scheduled job):
\* main() runs from its first line, with config.json as it is then
Relaunch ==
    /\ pc = "done"
    /\ Startup(file)
    /\ prev' = [prev EXCEPT !.same_cfg = (cfgvars' = cfgvars)]
    /\ UNCHANGED <<file, cyclevars, emails, start, completed, page, ccsent>>

Next ==
    \/ FetchJs
    \/ FetchHttp
    \/ FetchFail
    \/ ChangeCheck
    \/ KeywordCheck
    \/ NoNotify
    \/ Notify
    \/ Persist
    \/ EndCycle
    \/ Relaunch

Spec == Init /\ [][Next]_vars

(* ------------------------------------------------- process termination *)

\* positions of a running process
Running == {"cycle", "change", "keyword", "notify", "persist", "end"}

\* main() is inside save_state: line 204 of a first observation, or line 276
InSave == pc = "persist" \/ (pc = "change" /\ last_hash = None)

\* positions of a process that has ended
Stopped == {"killed", "done"}

\* what the end of the process leaves behind: its memory is gone (the variables
\* of main() take their values of before the start), the state file stays, and a
\* content-change notification sent but not yet saved is marked
Terminated ==
    /\ pc' = "killed"
    /\ state' = EmptyDict
    /\ last_hash' = None
    /\ last_keyword_found' = FALSE
    /\ fetched' = "none"
    /\ content' = << >>
    /\ text_lower' = << >>
    /\ page_hash' = None
    /\ ResetLocals
    /\ emails' = << >>
    /\ start' = [last_hash |-> None, last_keyword_found |-> FALSE, file |-> NoFile]
    /\ prev' = NoPrev
    /\ page' = << >>
    /\ ccsent' = IF pc = "persist" /\ ccsent # NoChange
                 THEN [ccsent EXCEPT !.killed = TRUE]
                 ELSE ccsent
    /\ UNCHANGED <<cfgvars, completed>>

\* the process is terminated from outside, at any position of the loop
Kill ==
    /\ pc \in Running
    /\ Terminated
    /\ UNCHANGED file

\* the process is terminated inside save_state, after open(path, "w") has emptied
\* the file and before json.dump has written all of it
KillInSave ==
    /\ pc \in Running
    /\ InSave
    /\ Terminated
    /\ file' = Truncated

\* the process is started again with config.json as it was, and load_state
\* returns (lines 148-172)
Restart ==
    /\ pc \in Stopped
    /\ ~LoadRaises(file)
    /\ state' = load_state(file)
    /\ last_hash' = DictGet(state', "last_hash", None)
    /\ last_keyword_found' = DictGet(state', "last_keyword_found", FALSE)
    /\ pc' = "cycle"
    /\ UNCHANGED <<cfgvars, file, cyclevars, emails, histvars>>

\* the process is started again and json.load raises in load_state (line 101,
\* called from line 159 outside any try): main() ends with the exception
StartFails ==
    /\ pc \in Stopped
    /\ LoadRaises(file)
    /\ pc' = "failed"
    /\ UNCHANGED <<cfgvars, file, state, last_hash, last_keyword_found, cyclevars, emails,
                   histvars>>

\* the steps of a deployment whose process can be terminated and started again
NextCrash ==
    \/ FetchJs
    \/ FetchHttp
    \/ FetchFail
    \/ ChangeCheck
    \/ KeywordCheck
    \/ NoNotify
    \/ Notify
    \/ Persist
    \/ EndCycle
    \/ Kill
    \/ KillInSave
    \/ Restart
    \/ StartFails

SpecCrash == Init /\ [][NextCrash]_vars

(* ------------------------------------------------------------ properties *)

\* this cycle obtained a page
Success == fetched \in {"js", "http"}

\* the monitor state load_state would return from the state file
FileHash == DictGet(load_state(file), "last_hash", None)
FileKeywordFound == DictGet(load_state(file), "last_keyword_found", FALSE)

\* the cycle has called send_email
Attempted == emails # << >>

\* C1: a notification is sent only in a cycle with a transition: the fingerprint
\* differs from the stored one, or keyword presence goes from not-found to found.
C1_NotifyOnlyOnTransition ==
    (pc = "end" /\ Success /\ Attempted)
        => \/ page_hash # start.last_hash
           \/ use_keyword /\ ~start.last_keyword_found /\ keyword_found

\* C2: when two consecutive successful cycles observe identical content under the
\* same configuration, the second one does not call send_email and leaves
\* last_hash, last_keyword_found and the state file as they were.
C2_NoChangeIdempotent ==
    (pc = "end" /\ Success /\ prev.ok /\ prev.same_cfg /\ prev.content = content)
        => /\ ~Attempted
           /\ last_hash = start.last_hash
           /\ last_keyword_found = start.last_keyword_found
           /\ file = start.file

\* C3: a cycle that starts with no stored fingerprint never sets content_changed,
\* never gives the reason "Page content changed", and has the current fingerprint
\* in last_hash and in the state file from the change check on.
C3_FirstRunSuppression ==
    (pc \in {"keyword", "notify", "persist", "end"} /\ Success /\ start.last_hash = None)
        => /\ ~content_changed
           /\ ReasonChanged \notin Range(reasons)
           /\ \A i \in 1..Len(emails) : ReasonChanged \notin Range(emails[i].reason)
           /\ last_hash = page_hash
           /\ FileHash = page_hash

\* a first cycle that ended after a send_email call
C3_Witness ==
    pc = "end" /\ Success /\ start.last_hash = None /\ Attempted /\ content # << >>

\* C4: a successful cycle that starts with fingerprint D and observes D' # D has
\* called send_email with a reason that includes "Page content changed", and at
\* its end last_hash and the state file hold D'.
C4_ContentChangeDetected ==
    (pc = "end" /\ Success /\ start.last_hash # None /\ page_hash # start.last_hash)
        => /\ Attempted
           /\ ReasonChanged \in Range(emails[1].reason)
           /\ last_hash = page_hash
           /\ FileHash = page_hash

\* a change was detected and its mail was not delivered
C4_Witness ==
    /\ pc = "end" /\ Success
    /\ start.last_hash # None /\ page_hash # start.last_hash
    /\ Attempted /\ ~emails[1].sent

\* C5: with keyword matching enabled, a cycle where presence goes from not-found to
\* found notifies with the keyword reason; a cycle where it goes from found to
\* not-found gives no keyword reason, notifies only if the content changed, and
\* ends with last_keyword_found false.
C5_KeywordOneDirectional ==
    (pc = "end" /\ Success /\ use_keyword)
        => /\ (~start.last_keyword_found /\ KeywordIn(keyword, text_lower))
                => /\ Attempted
                   /\ ReasonKeyword(keyword) \in Range(emails[1].reason)
           /\ (start.last_keyword_found /\ ~KeywordIn(keyword, text_lower))
                => /\ ReasonKeyword(keyword) \notin Range(reasons)
                   /\ Attempted <=> content_changed
                   /\ ~last_keyword_found

\* the keyword was present before the cycle and is absent from this cycle's page
C5_Witness ==
    /\ pc = "end" /\ Success /\ use_keyword
    /\ start.last_keyword_found /\ ~KeywordIn(keyword, text_lower)
    /\ ~last_keyword_found

\* C6: between cycles last_hash is None exactly when no cycle has completed a
\* successful observation, and no step sets a non-None last_hash back to None.
C6_NoneIffNeverObserved ==
    /\ [](pc \in {"cycle", "done"} => (last_hash = None <=> ~completed))
    /\ [][last_hash # None => last_hash' # None]_vars

\* a failed cycle after a successful one
C6_Witness ==
    pc = "end" /\ fetched = "fail" /\ completed /\ last_hash # None

\* C7: a step that changes a non-None last_hash is the change check of a
\* successful cycle, and the new value is the fingerprint of that cycle's content.
C7_ChangeMonotonic ==
    [][(last_hash # None /\ last_hash' # last_hash)
          => /\ pc = "change"
             /\ Success
             /\ last_hash' = compute_hash(content)
             /\ last_hash' = page_hash]_vars

\* the change check has just replaced a stored fingerprint
C7_Witness ==
    /\ pc = "keyword"
    /\ start.last_hash # None
    /\ last_hash # start.last_hash

\* C8: a cycle whose two fetches failed leaves last_hash, last_keyword_found and
\* the state file unchanged and calls send_email not at all; the error is handled
\* inside the loop, and in continuous mode the next cycle follows.
C8_FetchFailureSkipsCycle ==
    /\ []((pc = "end" /\ fetched = "fail")
            => /\ last_hash = start.last_hash
               /\ last_keyword_found = start.last_keyword_found
               /\ file = start.file
               /\ ~Attempted)
    /\ [][/\ (pc = "cycle" /\ fetched' = "fail") => pc' = "end"
          /\ (pc = "end" /\ fetched = "fail" /\ ~single_run) => pc' = "cycle"]_vars

\* a failed fetch in continuous mode with a stored state
C8_Witness ==
    pc = "end" /\ fetched = "fail" /\ ~single_run /\ last_hash # None

\* C9: a cycle that called send_email has last_hash and last_keyword_found in the
\* state file at its end, whatever send_email returned; and when the previous
\* cycle's mail was not delivered, a cycle with the same content under the same
\* configuration does not call send_email again.
C9_DeliveryFailurePersists ==
    /\ (pc = "end" /\ Attempted)
          => /\ FileHash = last_hash
             /\ FileKeywordFound = last_keyword_found
    /\ (pc = "end" /\ Success /\ prev.ok /\ prev.same_cfg /\ prev.sent /\ ~prev.delivered
           /\ prev.content = content)
          => ~Attempted

\* C10: at the end of every cycle the state file, read back by load_state, gives
\* the last_hash and last_keyword_found that main() holds in memory.
C10_FileMatchesMemory ==
    pc = "end" => /\ FileHash = last_hash
                  /\ FileKeywordFound = last_keyword_found

\* C12: in single-run mode the end of the first cycle, whatever its outcome, ends
\* the process, and nothing but the end of a cycle does; in continuous mode the end
\* of a cycle always leads to the next cycle, and a process only re-enters the loop
\* top from the end of a cycle of a continuous run.
C12_SingleRunTermination ==
    [][/\ pc = "end" => pc' = (IF single_run THEN "done" ELSE "cycle")
       /\ pc' = "done" => (pc = "end" /\ single_run)
       /\ (pc' = "cycle" /\ pc \notin {"cycle", "done"}) => (pc = "end" /\ ~single_run)]_vars

\* a single run ended after a cycle whose fetches failed
C12_Witness ==
    pc = "done" /\ single_run /\ fetched = "fail"

\* C13: the fingerprint stored after an observation is the fingerprint of the
\* lower-cased text of the page, so two consecutive observations whose contents
\* differ only in letter case store the same fingerprint and flag no change.
C13_FingerprintOfLowercaseText ==
    (pc = "end" /\ Success)
        => /\ last_hash = compute_hash(Encode(text_lower))
           /\ (prev.ok /\ Lower(prev.content) = Lower(content)) => ~content_changed

\* C15: a successful cycle calls send_email exactly when the content changed or
\* the keyword, with matching enabled, is in this cycle's text; with matching
\* disabled it does so exactly when a stored fingerprint exists and differs from
\* the current one.
C15_NotificationDecision ==
    (pc = "end" /\ Success)
        => /\ Attempted <=> (content_changed \/ (use_keyword /\ KeywordIn(keyword, text_lower)))
           /\ ~use_keyword
                => (Attempted <=> (start.last_hash # None /\ page_hash # start.last_hash))

\* the keyword alone, on an unchanged page, made the cycle send
C15_Witness ==
    /\ pc = "end" /\ Success /\ Attempted
    /\ ~content_changed /\ start.last_hash # None
    /\ use_keyword /\ keyword # << >>

\* C16: the cycle that records the initial snapshot (it starts with no stored
\* fingerprint) sends no notification, whatever the content and configuration.
C16_NoNotificationOnFirstRun ==
    (pc \in {"persist", "end"} /\ Success /\ start.last_hash = None) => ~Attempted

\* C17: with keyword matching enabled and an empty keyword, every successful
\* cycle, the first included, sends a notification with the keyword reason and
\* has last_keyword_found true, whatever the page text.
C17_EmptyKeywordAlwaysMatches ==
    (pc = "end" /\ Success /\ use_keyword /\ keyword = << >>)
        => /\ Attempted
           /\ ReasonKeyword(<< >>) \in Range(emails[1].reason)
           /\ last_keyword_found
           /\ FileKeywordFound

\* a first cycle that saw an empty page and has the empty keyword
C17_Witness ==
    /\ pc = "end" /\ Success /\ use_keyword /\ keyword = << >>
    /\ text_lower = << >> /\ start.last_hash = None /\ Attempted

\* C19: while keyword matching is disabled no step of the run changes
\* last_keyword_found, and the value the state file gives for it is, at every
\* moment of the run, the value in memory.
C19_KeywordFlagFrame ==
    /\ [](~use_keyword => last_keyword_found = FileKeywordFound)
    /\ [][(~use_keyword /\ pc # "done") => last_keyword_found' = last_keyword_found]_vars

\* a run without keyword matching wrote the state file, which holds a true flag
C19_Witness ==
    /\ ~use_keyword /\ pc = "end" /\ Attempted
    /\ last_keyword_found /\ FileKeywordFound

\* C20: a cycle calls send_email at most once and not at all when its fetches
\* failed; the call is made at the notification step, after the change check and
\* the keyword check, and the state file write that ends the cycle comes after it.
C20_SendOncePerCycle ==
    /\ [](/\ Len(emails) <= 1
          /\ fetched = "fail" => ~Attempted
          /\ pc \in {"change", "keyword", "notify"} => ~Attempted
          /\ pc = "persist" => Attempted)
    /\ [][/\ emails' # emails /\ Attempted' => (pc = "notify" /\ pc' = "persist")
          /\ (Attempted /\ file' # file) => (pc = "persist" /\ pc' = "end")]_vars

\* a cycle that sent a mail has written the state file
C20_Witness ==
    pc = "end" /\ Attempted /\ file # start.file

\* C18: when the server serves the same page to two consecutive successful
\* cycles, the second computes the fingerprint of the first, whichever fetch
\* strategy each used, and does not report "Page content changed".
C18_SameFingerprintAcrossStrategies ==
    (pc = "end" /\ Success /\ prev.ok /\ prev.page = page)
        => /\ page_hash = compute_hash(prev.content)
           /\ ReasonChanged \notin Range(reasons)

\* a send_email call for a content change that repeats the one noted before
DuplicateSend ==
    /\ pc = "notify"
    /\ emails' # emails
    /\ content_changed
    /\ ccsent.from = start.last_hash
    /\ ccsent.to = page_hash

\* C11: with the process terminated at any point and started again from the state
\* file, a content-change notification for the same old and new fingerprint is
\* sent a second time only if the process was terminated after the send_email
\* call of the first one and before its save_state had completed.
C11_CrashWindow ==
    [][DuplicateSend => ccsent.killed]_vars

\* a restarted process has sent the same content-change notification again
C11_Witness ==
    pc = "persist" /\ ccsent.dup /\ ~ccsent.killed /\ Attempted

\* C14: a process started on a state file that json.load cannot read enters the
\* loop with no stored fingerprint and last_keyword_found false.
C14_CorruptStateIsEmptyState ==
    [][(pc \in Stopped /\ LoadRaises(file) /\ pc' # pc)
          => (pc' = "cycle" /\ last_hash' = None /\ ~last_keyword_found')]_vars

====
